---- MODULE Spec2Model ----
(***************************************************************************)
(* The lexer of monkey-rs (src/src/lexer.rs) as a state machine.           *)
(*                                                                         *)
(* A character is a one-element string; the input text is a sequence of    *)
(* characters.  Rust's String is UTF-8: input.len() counts BYTES while     *)
(* input.chars().nth(k) counts CHARACTERS, and &input[a..=b] slices by     *)
(* byte offset.  Two characters that are not single-byte stand for the     *)
(* non-ASCII code points: "U+00E9" (2 bytes) and "U+20AC" (3 bytes).       *)
(* "NUL" is the character '\0', which the lexer also uses as its sentinel. *)
(***************************************************************************)
EXTENDS Integers, Sequences, FiniteSets, TLC

VARIABLES input, position, read_position, ch, panicked, out, twin, repl

vars == <<input, position, read_position, ch, panicked, out, twin, repl>>

(***************************************************************************)
(* Bounds of the model.                                                    *)
(***************************************************************************)
\* longest input enumerated exhaustively over Alphabet
MaxLen == 3
\* calls of next() made after the call that could first reach the end
MaxPastEnd == 2
\* longest input of the two-scanner specification
MaxWsLen == 3
\* longest run of whitespace inserted in the two-scanner specification
MaxRun == 2
MaxLines == 2
MaxLineLen == 2

(***************************************************************************)
(* Characters.                                                             *)
(***************************************************************************)
NUL == "NUL"

Lower == {"a", "b", "c", "d", "e", "f", "g", "h", "i", "j", "k", "l", "m",
          "n", "o", "p", "q", "r", "s", "t", "u", "v", "w", "x", "y", "z"}

Upper == {"A", "B", "C", "D", "E", "F", "G", "H", "I", "J", "K", "L", "M",
          "N", "O", "P", "Q", "R", "S", "T", "U", "V", "W", "X", "Y", "Z"}

\* 'a'..='z' | 'A'..='Z' | '_'
Letter == Lower \cup Upper \cup {"_"}

\* '0'..='9'
Digit == {"0", "1", "2", "3", "4", "5", "6", "7", "8", "9"}

\* ' ' | '\t' | '\n' | '\r'
Whitespace == {" ", "\t", "\n", "\r"}

DigitVal(c) ==
    CASE c = "0" -> 0 [] c = "1" -> 1 [] c = "2" -> 2 [] c = "3" -> 3
      [] c = "4" -> 4 [] c = "5" -> 5 [] c = "6" -> 6 [] c = "7" -> 7
      [] c = "8" -> 8 [] c = "9" -> 9

\* the number of bytes of a character in the UTF-8 text
Utf8Len(c) ==
    CASE c = "U+00E9" -> 2
      [] c = "U+20AC" -> 3
      [] OTHER -> 1

(***************************************************************************)
(* Token (lexer.rs 1-40): a record per variant; text and value are the     *)
(* payloads of IDENT and INT.                                              *)
(***************************************************************************)
Tok(k) == [kind |-> k, text |-> <<>>, value |-> 0]

ILLEGAL == Tok("ILLEGAL")
EOF == Tok("EOF")
IDENT(t) == [kind |-> "IDENT", text |-> t, value |-> 0]
INT(v) == [kind |-> "INT", text |-> <<>>, value |-> v]
ASSIGN == Tok("ASSIGN")
PLUS == Tok("PLUS")
MINUS == Tok("MINUS")
GT == Tok("GT")
LT == Tok("LT")
BANG == Tok("BANG")
ASTERISK == Tok("ASTERISK")
SLASH == Tok("SLASH")
EQ == Tok("EQ")
NEQ == Tok("NEQ")
GEQ == Tok("GEQ")
LEQ == Tok("LEQ")
LPAREN == Tok("LPAREN")
RPAREN == Tok("RPAREN")
LBRACE == Tok("LBRACE")
RBRACE == Tok("RBRACE")
COMMA == Tok("COMMA")
SEMICOLON == Tok("SEMICOLON")
FUNCTION == Tok("FUNCTION")
LET_ == Tok("LET")
TRUE_ == Tok("TRUE")
FALSE_ == Tok("FALSE")
IF_ == Tok("IF")
ELSE_ == Tok("ELSE")
RETURN == Tok("RETURN")

\* Option<Token> of Iterator::next: None is no token, Some(t) carries t
None == Tok("None")
Some(t) == t

(***************************************************************************)
(* std::string::String as the lexer uses it.                               *)
(***************************************************************************)
RECURSIVE len(_)
\* input.len(): the length in bytes
len(s) == IF s = <<>> THEN 0 ELSE Utf8Len(Head(s)) + len(Tail(s))

\* input.chars().nth(n): the n-th character, "None" past the last one
nth(s, n) == IF n < Len(s) THEN s[n + 1] ELSE "None"

\* the byte offset at which character number i (from 0) starts
ByteOffset(s, i) == len(SubSeq(s, 1, i))

is_char_boundary(s, b) == \E i \in 0..Len(s) : ByteOffset(s, i) = b

\* &input[a..=b], a <= b: the characters lying in bytes a..b; not ok (a
\* panic) when b + 1 is past the end or an end of the range is inside a
\* character
slice(s, a, b) ==
    IF is_char_boundary(s, a) /\ is_char_boundary(s, b + 1)
    THEN LET first == CHOOSE i \in 0..Len(s) : ByteOffset(s, i) = a
             last == CHOOSE i \in 0..Len(s) : ByteOffset(s, i) = b + 1
         IN  [ok |-> TRUE, text |-> SubSeq(s, first + 1, last)]
    ELSE [ok |-> FALSE, text |-> <<>>]

I32_MAX == 2147483647

Ok(v) == [ok |-> TRUE, value |-> v]
Err == [ok |-> FALSE, value |-> 0]

RECURSIVE parse_digits(_, _, _)
\* the checked accumulation of <i32 as FromStr>: acc is the value so far
\* (negative when sign = -1); Err on a non-digit or when it leaves i32
parse_digits(t, sign, acc) ==
    IF t = <<>> THEN Ok(acc)
    ELSE IF Head(t) \notin Digit THEN Err
    ELSE LET d == DigitVal(Head(t)) IN
         IF sign = 1
         THEN IF acc > I32_MAX \div 10 \/ (acc = I32_MAX \div 10 /\ d > 7) THEN Err
              ELSE parse_digits(Tail(t), sign, acc * 10 + d)
         ELSE IF acc < -(I32_MAX \div 10) \/ (acc = -(I32_MAX \div 10) /\ d > 8) THEN Err
              ELSE parse_digits(Tail(t), sign, acc * 10 - d)

\* str::parse::<i32>(): an optional sign, then at least one digit
parse(t) ==
    IF t = <<>> THEN Err
    ELSE IF Head(t) \in {"+", "-"}
    THEN IF Len(t) = 1 THEN Err
         ELSE parse_digits(Tail(t), IF Head(t) = "-" THEN -1 ELSE 1, 0)
    ELSE parse_digits(t, 1, 0)

(***************************************************************************)
(* Lexer (lexer.rs 42-151).  A lexer value is the struct's four fields     *)
(* and `panicked`: whether a call on it has panicked (an unwrap of None,   *)
(* of Err, or a slice out of a character boundary).  A panic unwinds: the  *)
(* helpers leave a panicked lexer as it is.                                *)
(***************************************************************************)
Panic(self) == [self EXCEPT !.panicked = TRUE]

\* read_char that leaves ch as it is past the end, with no sentinel
read_char_stale(self) ==
    IF self.panicked THEN self
    ELSE LET c == IF self.read_position >= len(self.input) THEN self.ch
                  ELSE nth(self.input, self.read_position)
         IN  IF c = "None" THEN Panic(self)
             ELSE [self EXCEPT !.ch = c,
                               !.position = self.read_position,
                               !.read_position = self.read_position + 1]

read_char(self) ==
    IF self.panicked THEN self
    ELSE LET c == IF self.read_position >= len(self.input) THEN NUL
                  ELSE nth(self.input, self.read_position)
         IN  IF c = "None" THEN Panic(self)
             ELSE [self EXCEPT !.ch = c,
                               !.position = self.read_position,
                               !.read_position = self.read_position + 1]

\* peak_char without the test against the length: the unwrap alone
peak_char_unchecked(self) == nth(self.input, self.read_position)

\* the character after the current one, NUL past the end, "None" when the
\* unwrap panics
peak_char(self) ==
    IF self.read_position >= len(self.input) THEN NUL
    ELSE nth(self.input, self.read_position)

\* skip_whitespace with `if let` for `while let`: one character skipped
skip_whitespace_once(self) ==
    IF ~self.panicked /\ self.ch \in Whitespace THEN read_char(self) ELSE self

RECURSIVE skip_whitespace(_)
skip_whitespace(self) ==
    IF ~self.panicked /\ self.ch \in Whitespace
    THEN skip_whitespace(read_char(self))
    ELSE self

double_token(self, second, single, double) ==
    LET p == peak_char(self) IN
    IF p = "None" THEN [lexer |-> Panic(self), tok |-> single]
    ELSE IF second = p THEN [lexer |-> read_char(self), tok |-> double]
    ELSE [lexer |-> self, tok |-> single]

RECURSIVE ident_run(_)
\* the loop of read_ident
ident_run(self) ==
    LET p == peak_char(self) IN
    IF p = "None" THEN Panic(self)
    ELSE IF p \in Letter THEN ident_run(read_char(self))
    ELSE self

\* String::from(&self.input[start..=self.position]) on the lexer s the
\* loop has left
ident_text(s, text) ==
    IF text.ok THEN [lexer |-> s, ident |-> text.text]
    ELSE [lexer |-> Panic(s), ident |-> <<>>]

ident_from(start, s) ==
    IF s.panicked THEN [lexer |-> s, ident |-> <<>>]
    ELSE ident_text(s, slice(s.input, start, s.position))

read_ident(self) == ident_from(self.position, ident_run(self))

RECURSIVE int_run(_)
\* the loop of read_int
int_run(self) ==
    LET p == peak_char(self) IN
    IF p = "None" THEN Panic(self)
    ELSE IF p \in Digit THEN int_run(read_char(self))
    ELSE self

\* .parse().unwrap() of the text sliced, on the lexer s the loop has left
int_value(s, v) ==
    IF v.ok THEN [lexer |-> s, value |-> v.value]
    ELSE [lexer |-> Panic(s), value |-> 0]

int_text(s, text) ==
    IF text.ok THEN int_value(s, parse(text.text))
    ELSE [lexer |-> Panic(s), value |-> 0]

int_from(start, s) ==
    IF s.panicked THEN [lexer |-> s, value |-> 0]
    ELSE int_text(s, slice(s.input, start, s.position))

read_int(self) == int_from(self.position, int_run(self))

\* the keyword table of next_token
keyword(ident) ==
    CASE ident = <<"f", "n">> -> FUNCTION
      [] ident = <<"l", "e", "t">> -> LET_
      [] ident = <<"t", "r", "u", "e">> -> TRUE_
      [] ident = <<"f", "a", "l", "s", "e">> -> FALSE_
      [] ident = <<"i", "f">> -> IF_
      [] ident = <<"e", "l", "s", "e">> -> ELSE_
      [] ident = <<"r", "e", "t", "u", "r", "n">> -> RETURN
      [] OTHER -> IDENT(ident)

plain(s, t) == [lexer |-> s, tok |-> t]

int_token(r) == [lexer |-> r.lexer, tok |-> INT(r.value)]

ident_token(r) == [lexer |-> r.lexer, tok |-> keyword(r.ident)]

\* the match of next_token on self.ch
match_ch(s, c) ==
        CASE c = "=" -> double_token(s, "=", ASSIGN, EQ)
          [] c = "+" -> plain(s, PLUS)
          [] c = "-" -> plain(s, MINUS)
          [] c = ">" -> double_token(s, "=", GT, GEQ)
          [] c = "<" -> double_token(s, "=", LT, LEQ)
          [] c = "!" -> double_token(s, "=", BANG, NEQ)
          [] c = "*" -> plain(s, ASTERISK)
          [] c = "/" -> plain(s, SLASH)
          [] c = "(" -> plain(s, LPAREN)
          [] c = ")" -> plain(s, RPAREN)
          [] c = "{" -> plain(s, LBRACE)
          [] c = "}" -> plain(s, RBRACE)
          [] c = "," -> plain(s, COMMA)
          [] c = ";" -> plain(s, SEMICOLON)
          [] c \in Digit -> int_token(read_int(s))
          [] c \in Letter -> ident_token(read_ident(s))
          [] c = NUL -> plain(s, EOF)
          [] OTHER -> plain(s, ILLEGAL)

dispatch(s) == IF s.panicked THEN plain(s, EOF) ELSE match_ch(s, s.ch)

\* the self.read_char() that ends next_token
advance(r) == [lexer |-> read_char(r.lexer), tok |-> r.tok]

\* next_token: the lexer after the call and the token returned (no token is
\* returned when the lexer has panicked)
next_token(self) == advance(dispatch(skip_whitespace(self)))

\* Lexer::new without its read_char
new_unprimed(text) ==
    [input |-> text, position |-> 0, read_position |-> 0,
     ch |-> NUL, panicked |-> FALSE]

\* Lexer::new
new(text) ==
    read_char([input |-> text, position |-> 0, read_position |-> 0,
               ch |-> NUL, panicked |-> FALSE])

\* Iterator::next that hands every token on, EOF too
item_of_every(r) == [lexer |-> r.lexer, item |-> Some(r.tok)]

\* Iterator::next: the lexer after the call and the Option returned
item_of(r) ==
    [lexer |-> r.lexer, item |-> IF r.tok = EOF THEN None ELSE Some(r.tok)]

next(self) == item_of(next_token(self))

(***************************************************************************)
(* Inputs.                                                                 *)
(***************************************************************************)
Alphabet == {"=", "!", "<", "+", "-", " ", "\n", "0", "1", "i", "f", "_", "@",
             NUL, "U+00E9"}

ShortInputs == UNION {[1..n -> Alphabet] : n \in 0..MaxLen}

\* the inputs of the repository's tests and of the scenarios, integer
\* literals around the i32 range, and texts with multi-byte characters
SampleInputs == {
    <<"=", "+", "-", ">", "<", "!", "*", "/", "(", ")", "{", "}", ",", ";">>,
    <<"=", "=", " ", "!", "=", " ", ">", "=", " ", "<", "=">>,
    <<"=", "+", "(", ")", "{", "}", ",", ";">>,
    <<"l", "e", "t", " ", "f", "i", "v", "e", " ", "=", " ", "5", ";">>,
    <<"\n", "\t", "i", "f", " ", "(", "x", " ", ">", " ", "y", ")", " ", "{",
      "\r", "\n", "r", "e", "t", "u", "r", "n", " ", "t", "r", "u", "e", ";",
      " ", "}", " ", "e", "l", "s", "e", " ", "{", " ", "f", "a", "l", "s",
      "e", " ", "}">>,
    <<"f", "n", "(", "x", "1", ",", " ", "f", "o", "o", "_", "2", "b", "a",
      "r", ")">>,
    <<"2", "1", "4", "7", "4", "8", "3", "6", "4", "7">>,
    <<"2", "1", "4", "7", "4", "8", "3", "6", "4", "8">>,
    <<"-", "2", "1", "4", "7", "4", "8", "3", "6", "4", "8", ";">>,
    <<"0", "0", "0", "0", "0", "0", "0", "0", "0", "0", "4", "2", " ", "7">>,
    <<"9", "9", "9", "9", "9", "9", "9", "9", "9", "9", "9">>,
    <<"U+00E9", " ", "i", "f", " ", "x">>,
    <<"U+00E9", "-", "1", "2", " ">>,
    <<"U+00E9", "+", "9", "9", "9", "9", "9", "9", "9", "9", "9", "9", " ">>,
    <<"U+00E9", "2", "1", "4", "7", "4", "8", "3", "6", "4", "7">>,
    <<"U+20AC", "U+20AC", " ", "a", "b", "c", " ">>,
    <<"U+20AC", "U+20AC", "=", "l", "e", "t", "=">> }

Inputs == ShortInputs \cup SampleInputs

(***************************************************************************)
(* The scanner under a consumer that calls next().                         *)
(***************************************************************************)
Self ==
    [input |-> input, position |-> position, read_position |-> read_position,
     ch |-> ch, panicked |-> panicked]

\* twin is a second scanner, over the text of the first with the whitespace
\* `run` inserted before character number `at`, and the items it has
\* returned; in Spec there is none
NoTwin == [input |-> <<>>, position |-> 0, read_position |-> 0, ch |-> NUL,
           panicked |-> FALSE, out |-> <<>>, at |-> 0, run |-> <<>>]

\* repl is the interactive loop of repl.rs; in Spec and SpecTwin there is
\* none
NoRepl == [pc |-> "none", line |-> <<>>, stdout |-> <<>>, reads |-> 0, mark |-> 0]

Holds(l) ==
    /\ input = l.input
    /\ position = l.position
    /\ read_position = l.read_position
    /\ ch = l.ch
    /\ panicked = l.panicked
    /\ out = <<>>

Construct(text) == Holds(new(text))

Init ==
    /\ \E text \in Inputs : Construct(text)
    /\ twin = NoTwin
    /\ repl = NoRepl

\* the most calls of next() made on a scanner over text
MaxCalls(text) == Len(text) + 1 + MaxPastEnd

\* one call of next() by the consumer; a call that panics returns nothing
\* and ends the scan
Returns(r) ==
    /\ input' = r.lexer.input
    /\ position' = r.lexer.position
    /\ read_position' = r.lexer.read_position
    /\ ch' = r.lexer.ch
    /\ panicked' = r.lexer.panicked
    /\ out' = IF r.lexer.panicked THEN out ELSE Append(out, r.item)

CallNext == Returns(next(Self))

IterNext ==
    /\ ~panicked
    /\ Len(out) < MaxCalls(input)
    /\ CallNext
    /\ UNCHANGED <<twin, repl>>

Next == IterNext

Spec == Init /\ [][Next]_vars

(***************************************************************************)
(* Two scanners under consumers that call next() in step: one over a text, *)
(* one over the same text with a run of whitespace inserted (an empty run: *)
(* over the same text).                                                    *)
(***************************************************************************)
TwinAlphabet == {" ", "i", "1", "=", NUL, "U+00E9"}

TwinInputs == UNION {[1..n -> TwinAlphabet] : n \in 0..MaxWsLen}

Runs == UNION {[1..n -> {" ", "\n"}] : n \in 0..MaxRun}

Insert(text, k, w) == SubSeq(text, 1, k) \o w \o SubSeq(text, k + 1, Len(text))

TwinSelf ==
    [input |-> twin.input, position |-> twin.position,
     read_position |-> twin.read_position, ch |-> twin.ch,
     panicked |-> twin.panicked]

NewTwin(l, k, w) ==
    [input |-> l.input, position |-> l.position,
     read_position |-> l.read_position, ch |-> l.ch,
     panicked |-> l.panicked, out |-> <<>>, at |-> k, run |-> w]

InitTwin ==
    \E text \in TwinInputs, w \in Runs :
        \E k \in (IF w = <<>> THEN {0} ELSE 0..Len(text)) :
            /\ Construct(text)
            /\ twin = NewTwin(new(Insert(text, k, w)), k, w)
            /\ repl = NoRepl

TwinReturns(r) ==
    twin' = [twin EXCEPT !.position = r.lexer.position,
                         !.read_position = r.lexer.read_position,
                         !.ch = r.lexer.ch,
                         !.panicked = r.lexer.panicked,
                         !.out = IF r.lexer.panicked THEN twin.out
                                 ELSE Append(twin.out, r.item)]

BothNext ==
    /\ ~panicked
    /\ ~twin.panicked
    /\ Len(out) < MaxCalls(input)
    /\ CallNext
    /\ TwinReturns(next(TwinSelf))
    /\ UNCHANGED repl

NextTwin == BothNext

SpecTwin == InitTwin /\ [][NextTwin]_vars

(***************************************************************************)
(* The interactive loop (repl.rs 6-30).  repl.pc is where start() is:      *)
(* "read" before the prompt of an iteration, "drain" inside the for loop   *)
(* over the scanner, "exited" after the break, "aborted" after a panic.    *)
(* repl.line is the line read last, repl.stdout the writes made so far,    *)
(* repl.reads the number of lines read and repl.mark the number of writes  *)
(* made before the last line's prompt.  The scanner variables hold the     *)
(* scanner of the last line scanned.                                       *)
(***************************************************************************)
PROMPT == <<">", ">", " ">>

\* char::is_whitespace, on the characters of the model
White_Space == {" ", "\t", "\n", "\r", "\f"}

RECURSIVE trim_start(_)
trim_start(s) ==
    IF s # <<>> /\ Head(s) \in White_Space THEN trim_start(Tail(s)) ELSE s

RECURSIVE trim_end(_)
trim_end(s) ==
    IF s # <<>> /\ s[Len(s)] \in White_Space
    THEN trim_end(SubSeq(s, 1, Len(s) - 1))
    ELSE s

\* str::trim
trim(s) == trim_end(trim_start(s))

\* char::escape_debug inside a string, on the characters of the model
escape_debug(c) ==
    CASE c = NUL -> <<"\\", "0">>
      [] c = "\t" -> <<"\\", "t">>
      [] c = "\n" -> <<"\\", "n">>
      [] c = "\r" -> <<"\\", "r">>
      [] c = "\f" -> <<"\\", "u", "{", "c", "}">>
      [] c = "\"" -> <<"\\", "\"">>
      [] c = "\\" -> <<"\\", "\\">>
      [] OTHER -> <<c>>

RECURSIVE escaped(_)
escaped(t) ==
    IF t = <<>> THEN <<>> ELSE escape_debug(Head(t)) \o escaped(Tail(t))

DigitChar(d) ==
    CASE d = 0 -> "0" [] d = 1 -> "1" [] d = 2 -> "2" [] d = 3 -> "3"
      [] d = 4 -> "4" [] d = 5 -> "5" [] d = 6 -> "6" [] d = 7 -> "7"
      [] d = 8 -> "8" [] d = 9 -> "9"

RECURSIVE digits(_)
digits(n) ==
    IF n < 10 THEN <<DigitChar(n)>>
    ELSE digits(n \div 10) \o <<DigitChar(n % 10)>>

\* the decimal text of an i32
display_i32(n) ==
    IF n >= 0 THEN digits(n)
    ELSE IF n = -I32_MAX - 1
    THEN <<"-", "2", "1", "4", "7", "4", "8", "3", "6", "4", "8">>
    ELSE <<"-">> \o digits(-n)

\* {:?} of a Token (derive(Debug)): the variant's name, and the payload of
\* IDENT as a quoted, escaped string and of INT as a decimal number
Debug(t) ==
    CASE t.kind = "IDENT" -> <<"IDENT", "(", "\"">> \o escaped(t.text) \o <<"\"", ")">>
      [] t.kind = "INT" -> <<"INT", "(">> \o display_i32(t.value) \o <<")">>
      [] OTHER -> <<t.kind>>

exit == <<"e", "x", "i", "t">>

\* what read_line may read: a line with its newline, or the rest of the
\* input up to its end (nothing at all when the input has ended)
ReplAlphabet == {"1", "+", " "}

ShortLines ==
    {t \o <<"\n">> : t \in UNION {[1..n -> ReplAlphabet] : n \in 0..MaxLineLen}}

SampleLines == {
    <<>>,
    <<"e", "x", "i", "t", "\n">>,
    <<"e", "x", "i", "t">>,
    <<" ", "e", "x", "i", "t", " ", "\r", "\n">>,
    <<"\t", "\f", "e", "x", "i", "t", "\n">>,
    <<"e", "x", "i", "t", ";", "\n">>,
    <<"e", "x", " ", "i", "t", "\n">>,
    <<"E", "x", "i", "t", "\n">>,
    <<"l", "e", "t", " ", "x", " ", "=", " ", "5", ";", "\n">>,
    <<"i", "f", " ", "a", "_", "b", " ", "!", "=", " ", "4", "2", "\r", "\n">>,
    <<"\f", "1", "\n">>,
    <<"1", "\f", "+", "\n">>,
    <<NUL, "+", "\n">>,
    <<"2", "1", "4", "7", "4", "8", "3", "6", "4", "8", "\n">>,
    <<"U+00E9", "\n">>,
    <<"U+00E9", " ", "i", "f", "\n">>,
    <<"U+00E9", "-", "1", "2", " ", ";", "\n">> }

Lines == ShortLines \cup SampleLines

NoLexer ==
    [input |-> <<>>, position |-> 0, read_position |-> 0, ch |-> NUL,
     panicked |-> FALSE]

InitRepl ==
    /\ Holds(NoLexer)
    /\ twin = NoTwin
    /\ repl = [pc |-> "read", line |-> <<>>, stdout |-> <<>>, reads |-> 0,
               mark |-> 0]

\* the scanner variable of an iteration is bound to l
Becomes(l) ==
    /\ input' = l.input
    /\ position' = l.position
    /\ read_position' = l.read_position
    /\ ch' = l.ch
    /\ panicked' = l.panicked
    /\ out' = <<>>

\* print!, flush and read_line of one iteration, the line read being l
Reads(l, pc) ==
    repl' = [pc |-> pc, line |-> l, stdout |-> Append(repl.stdout, PROMPT),
             reads |-> repl.reads + 1, mark |-> Len(repl.stdout)]

\* an iteration reads a line whose trimmed text is exit: break
ReadExit ==
    /\ repl.pc = "read"
    /\ repl.reads < MaxLines
    /\ \E l \in Lines :
          /\ trim(l) = exit
          /\ Reads(l, "exited")
    /\ UNCHANGED <<input, position, read_position, ch, panicked, out, twin>>

\* an iteration reads any other line: Lexer::new over the trimmed text
ReadLine ==
    /\ repl.pc = "read"
    /\ repl.reads < MaxLines
    /\ \E l \in Lines :
          /\ trim(l) # exit
          /\ Reads(l, "drain")
          /\ Becomes(new(trim(l)))
    /\ UNCHANGED twin

\* flush or read_line returns Err (the output is closed, the input is not
\* UTF-8): the unwrap panics
IoError ==
    /\ repl.pc = "read"
    /\ repl.reads < MaxLines
    /\ repl' = [repl EXCEPT !.pc = "aborted",
                            !.stdout = Append(repl.stdout, PROMPT),
                            !.mark = Len(repl.stdout)]
    /\ UNCHANGED <<input, position, read_position, ch, panicked, out, twin>>

\* what the for loop writes for the item of r: the token and a space, or,
\* the loop being over, the newline and the trimmed line with its newline
Written(r) ==
    IF r.item = None
    THEN <<<<"\n">>, trim(repl.line) \o <<"\n">>>>
    ELSE <<Debug(r.item) \o <<" ">>>>

ForReturns(r) ==
    /\ Returns(r)
    /\ repl' = [repl EXCEPT
                  !.pc = IF r.lexer.panicked THEN "aborted"
                         ELSE IF r.item = None THEN "read" ELSE "drain",
                  !.stdout = IF r.lexer.panicked THEN repl.stdout
                             ELSE repl.stdout \o Written(r)]

\* one turn of `for token in lexer`: next() is called; a token is printed
\* and the loop goes on, None ends it and the two println! follow, a panic
\* ends start()
ForNext ==
    /\ repl.pc = "drain"
    /\ ForReturns(next(Self))
    /\ UNCHANGED twin

NextRepl == ReadExit \/ ReadLine \/ IoError \/ ForNext

SpecRepl == InitRepl /\ [][NextRepl]_vars

(***************************************************************************)
(* What the claims speak of.  A step of Spec is one call of next(): it     *)
(* either returns an item (out grows by one) or panics.                    *)
(***************************************************************************)
RECURSIVE RunEnd(_, _, _)
\* the index after the longest run of characters of set that starts at
\* character number k of text
RunEnd(text, k, set) ==
    IF k < Len(text) /\ text[k + 1] \in set THEN RunEnd(text, k + 1, set) ELSE k

CharAt(text, k) == IF k < Len(text) THEN text[k + 1] ELSE NUL

\* the position of the character the call starting in this state dispatches
\* on: the first one at or after the cursor that is not whitespace
At == RunEnd(input, position, Whitespace)

\* a character of the input is there to dispatch on
InText == At < Len(input)

Cur == CharAt(input, At)

Following == CharAt(input, At + 1)

\* the run of characters of set that starts at the dispatch position
Lexeme(set) == SubSeq(input, At + 1, RunEnd(input, At, set))

\* the call of this step returned, and what
Returned == ~panicked' /\ Len(out') = Len(out) + 1

Ret == out'[Len(out')]

Items(o) == {o[i] : i \in 1..Len(o)}

SingleByte(text) == \A i \in 1..Len(text) : Utf8Len(text[i]) = 1

Compound == {"=", ">", "<", "!"}

SingleOf(c) ==
    CASE c = "=" -> ASSIGN [] c = ">" -> GT [] c = "<" -> LT [] c = "!" -> BANG

DoubleOf(c) ==
    CASE c = "=" -> EQ [] c = ">" -> GEQ [] c = "<" -> LEQ [] c = "!" -> NEQ

Keywords ==
    {<<"f", "n">>, <<"l", "e", "t">>, <<"t", "r", "u", "e">>,
     <<"f", "a", "l", "s", "e">>, <<"i", "f">>, <<"e", "l", "s", "e">>,
     <<"r", "e", "t", "u", "r", "n">>}

KeywordKind(t) ==
    CASE t = <<"f", "n">> -> "FUNCTION"
      [] t = <<"l", "e", "t">> -> "LET"
      [] t = <<"t", "r", "u", "e">> -> "TRUE"
      [] t = <<"f", "a", "l", "s", "e">> -> "FALSE"
      [] t = <<"i", "f">> -> "IF"
      [] t = <<"e", "l", "s", "e">> -> "ELSE"
      [] t = <<"r", "e", "t", "u", "r", "n">> -> "RETURN"

\* the token the claims expect for an identifier-shaped lexeme
WordToken(t) == IF t \in Keywords THEN Tok(KeywordKind(t)) ELSE IDENT(t)

SingleChar == {"+", "-", "*", "/", "(", ")", "{", "}", ",", ";"}

\* neither whitespace, an operator, a delimiter, a digit, a letter, an
\* underscore nor the null sentinel
IllegalChar(c) ==
    c \notin Whitespace \cup Compound \cup SingleChar \cup Digit \cup Letter \cup {NUL}

RECURSIVE Decimal(_, _)
\* the decimal value of a run of digits after acc, -1 when it is greater
\* than 2147483647
Decimal(t, acc) ==
    IF t = <<>> THEN acc
    ELSE IF acc > I32_MAX \div 10
            \/ (acc = I32_MAX \div 10 /\ DigitVal(Head(t)) > I32_MAX % 10)
    THEN -1
    ELSE Decimal(Tail(t), acc * 10 + DigitVal(Head(t)))

\* C1: when a call dispatches on one of = > < ! and the next character is
\* '=', both are consumed and the doubled token is returned; otherwise (any
\* other character, or the end of the input) the single token is returned
\* and the next character is left as the current one.
C1_MaximalMunch ==
    [][(~panicked /\ InText /\ Cur \in Compound) =>
          /\ Returned
          /\ IF Following = "="
             THEN Ret = DoubleOf(Cur) /\ position' = At + 2
             ELSE Ret = SingleOf(Cur) /\ position' = At + 1 /\ ch' = Following]_vars

\* C2: a call that dispatches on a letter or underscore and returns, returns
\* the keyword token when the lexeme read (the run of letters and
\* underscores) is a keyword and otherwise IDENT with exactly the lexeme's
\* text; no IDENT returned carries a keyword's text.
C2_KeywordClosure ==
    [][(~panicked /\ InText /\ Cur \in Letter /\ Returned) =>
          /\ Ret = WordToken(Lexeme(Letter))
          /\ \A t \in Items(out') : t.kind = "IDENT" => t.text \notin Keywords]_vars

\* C3: a call that dispatches on an illegal character, of whatever encoded
\* width, does not abort: it returns ILLEGAL and leaves the cursor on the
\* character that follows.
C3_IllegalContinues ==
    [][(~panicked /\ InText /\ IllegalChar(Cur)) =>
          /\ Returned
          /\ Ret = ILLEGAL
          /\ position' = At + 1
          /\ ch' = Following]_vars

\* C4: once next() has returned None, every later call returns None too.
C4_ExhaustionStable ==
    [][(~panicked /\ None \in Items(out)) => (Returned /\ Ret = None)]_vars

RECURSIVE Spans(_, _)
\* the lexemes of the first n calls on lexer l, each from the position of
\* its first character to the position after its last one
Spans(l, n) ==
    IF l.panicked \/ n = 0 THEN {}
    ELSE LET r == next_token(l)
         IN  {[from |-> skip_whitespace(l).position,
               to |-> IF r.lexer.panicked THEN r.lexer.position + 1
                      ELSE r.lexer.position]}
                 \cup Spans(r.lexer, n - 1)

\* character number k of text starts no lexeme's second or later character
Boundary(text, k) ==
    \A sp \in Spans(new(text), MaxCalls(text)) : ~(sp.from < k /\ k < sp.to)

Tokens(o) == {i \in 1..Len(o) : o[i] # None}

NonWhitespace(text) == {i \in 1..Len(text) : text[i] \notin Whitespace}

C6_IdentifierShape ==
    [][(~panicked /\ InText /\ Cur \in Letter /\ Returned) =>
          /\ Ret = WordToken(Lexeme(Letter \cup Digit))
          /\ position' = RunEnd(input, At, Letter \cup Digit)]_vars

\* C7: a call that dispatches on a digit and returns, the run of digits
\* being at most 2147483647, returns INT with the decimal value of the
\* whole run; no INT returned has a negative payload.
C7_IntegerValue ==
    [][(~panicked /\ InText /\ Cur \in Digit /\ Returned) =>
          /\ Decimal(Lexeme(Digit), 0) # -1 => Ret = INT(Decimal(Lexeme(Digit), 0))
          /\ \A t \in Items(out') : t.kind = "INT" => t.value >= 0]_vars

\* C8: a call that dispatches on a run of digits greater than 2147483647
\* aborts and returns no token, and nothing is returned after an abort; a
\* run equal to 2147483647 does not abort.
C8_OverflowFatal ==
    [][/\ (~panicked /\ InText /\ Cur \in Digit) =>
             /\ Decimal(Lexeme(Digit), 0) = -1 => (panicked' /\ out' = out)
             /\ Decimal(Lexeme(Digit), 0) = I32_MAX => Returned
       /\ panicked => out' = out]_vars

\* C9: draining terminates for every input: no call aborts, and by the
\* time one call per character of the input and one more have returned,
\* None has been returned.
C9_FiniteSequence ==
    /\ ~panicked
    /\ Len(out) > Len(input) => None \in Items(out)

\* C10: a call returns None if and only if, once whitespace is skipped, the
\* cursor is past the last character of the input.
C10_EofOnlyPastEnd ==
    [][(~panicked /\ Returned) => (Ret = None <=> ~InText)]_vars

SingleTok(c) ==
    CASE c = "+" -> PLUS [] c = "-" -> MINUS [] c = "*" -> ASTERISK
      [] c = "/" -> SLASH [] c = "(" -> LPAREN [] c = ")" -> RPAREN
      [] c = "{" -> LBRACE [] c = "}" -> RBRACE [] c = "," -> COMMA
      [] c = ";" -> SEMICOLON

\* text is made only of + - * / ( ) { } , ; and of = > < ! with no '='
\* after them
OnlySingles(text) ==
    \A i \in 1..Len(text) :
        \/ text[i] \in SingleChar
        \/ text[i] \in Compound /\ CharAt(text, i) # "="

\* the one token of a character of such a text
OneTok(c) == IF c \in SingleChar THEN SingleTok(c) ELSE SingleOf(c)

\* C11: a call that dispatches on one of + - * / ( ) { } , ; returns, whatever
\* the characters around it, the token of that character and consumes that
\* character only; and on a text made only of these characters and of
\* = > < ! with no '=' after them, the n-th call returns the token of the
\* n-th character.
C11_SingleCharTokens ==
    [][/\ (~panicked /\ InText /\ Cur \in SingleChar) =>
             /\ Returned
             /\ Ret = SingleTok(Cur)
             /\ position' = At + 1
       /\ (~panicked /\ OnlySingles(input)) =>
             /\ Returned
             /\ \A i \in 1..Len(out') :
                   out'[i] = IF i <= Len(input) THEN OneTok(input[i]) ELSE None]_vars

RECURSIVE DigitRunsFit(_, _)
\* every maximal run of digits of text from character number k on is at
\* most 2147483647
DigitRunsFit(text, k) ==
    IF k >= Len(text) THEN TRUE
    ELSE IF text[k + 1] \in Digit
    THEN /\ Decimal(SubSeq(text, k + 1, RunEnd(text, k, Digit)), 0) # -1
         /\ DigitRunsFit(text, RunEnd(text, k, Digit))
    ELSE DigitRunsFit(text, k + 1)

\* the token that a lexeme spells
TokenOf(t) ==
    IF t # <<>> /\ \A i \in 1..Len(t) : t[i] \in Letter THEN WordToken(t)
    ELSE IF t # <<>> /\ \A i \in 1..Len(t) : t[i] \in Digit
    THEN INT(Decimal(t, 0))
    ELSE IF Len(t) = 2 /\ t[1] \in Compound /\ t[2] = "=" THEN DoubleOf(t[1])
    ELSE IF Len(t) = 1 /\ t[1] \in Compound THEN SingleOf(t[1])
    ELSE IF Len(t) = 1 /\ t[1] \in SingleChar THEN SingleTok(t[1])
    ELSE IF Len(t) = 1 THEN ILLEGAL
    ELSE None

\* C14: on a text of single-byte characters whose digit runs fit an i32,
\* every call that has a character left to dispatch on returns a token
\* whose lexeme starts at the first character after the last lexeme that is
\* not whitespace and ends before the cursor the call leaves: the lexemes
\* are in order, disjoint, and leave no character but whitespace out.
C14_GapFree ==
    [][(~panicked /\ SingleByte(input) /\ DigitRunsFit(input, 0)) =>
          /\ Returned
          /\ IF InText
             THEN /\ position' > At
                  /\ Ret # None
                  /\ Ret = TokenOf(SubSeq(input, At + 1, position'))
             ELSE Ret = None]_vars

\* C15: on a text of single-byte characters whose digit runs fit an i32 no
\* call aborts, the calls after the end of the input included.
C15_AbortFree ==
    (SingleByte(input) /\ DigitRunsFit(input, 0)) => ~panicked

\* C15 (reached): a text with a word, a digit run and a doubled operator
\* has been scanned to its end and called twice more.
C15_Witness ==
    /\ SingleByte(input) /\ DigitRunsFit(input, 0)
    /\ \E i \in 1..Len(input) : input[i] \in Digit
    /\ \E i \in 1..Len(input) : input[i] \in Letter
    /\ input[Len(input)] \in Compound
    /\ Len(out) >= 3
    /\ out[Len(out)] = None /\ out[Len(out) - 1] = None /\ out[Len(out) - 2] = None
    /\ ~panicked

\* C16: every call leaves position strictly greater than it found it, and
\* a call that returns leaves it after the character it dispatched on, so
\* the next call dispatches on a later character.
C16_MonotonicCursor ==
    [][~panicked => (position' > position /\ (Returned => position' > At))]_vars

\* the token classes a call that dispatches on character c may return
ClassOf(c, item) ==
    CASE c = NUL -> item = None
      [] c \in Letter -> item.kind \in {"IDENT"} \cup {KeywordKind(t) : t \in Keywords}
      [] c \in Digit -> item.kind = "INT"
      [] c \in Compound -> item \in {SingleOf(c), DoubleOf(c)}
      [] c \in SingleChar -> item = SingleTok(c)
      [] OTHER -> item = ILLEGAL

\* C17: after Lexer::new, before any call, position is 0, read_position is
\* 1 and ch is the first character of the text (the null sentinel for the
\* empty text); and what the first call returns is a token of the first
\* character of the text that is not whitespace.
C17_ConstructionPrimes ==
    /\ (out = <<>> /\ ~panicked) =>
          /\ position = 0
          /\ read_position = 1
          /\ ch = CharAt(input, 0)
    /\ out # <<>> => ClassOf(CharAt(input, RunEnd(input, 0, Whitespace)), out[1])

\* C17 (reached): the first call on a text that starts with whitespace has
\* returned the token of the character after the whitespace.
C17_Witness ==
    /\ Len(input) >= 2
    /\ input[1] \in Whitespace
    /\ input[2] = "+"
    /\ out = <<PLUS>>

\* C18: in every state of a scanner over a text of single-byte characters,
\* read_position is position + 1, ch is the character at position (the
\* null sentinel past the end), and peak_char returns the character at
\* read_position (the null sentinel past the end).
C18_CursorConsistency ==
    SingleByte(input) =>
        /\ read_position = position + 1
        /\ ch = CharAt(input, position)
        /\ peak_char(Self) = CharAt(input, read_position)

\* C18 (reached): calls past the end of a non-empty text have left the
\* cursor beyond it, on the null sentinel.
C18_Witness ==
    /\ SingleByte(input)
    /\ input # <<>>
    /\ position > Len(input)
    /\ ch = NUL
    /\ Len(out) >= 2

\* the text of a line without the whitespace at its two ends
Trimmed(l) ==
    LET inner == {i \in 1..Len(l) : l[i] \notin White_Space}
    IN  IF inner = {} THEN <<>>
        ELSE SubSeq(l, CHOOSE i \in inner : \A j \in inner : i <= j,
                       CHOOSE i \in inner : \A j \in inner : j <= i)

\* the step reads a line
LineRead == repl'.reads = repl.reads + 1

\* C19: when a line is read whose trimmed text is exit the loop ends, with
\* the prompt written and no scanner made or called; when any other line is
\* read a scanner is made over it, no call of its drain aborts, and the
\* drain ends after at most one call per character and one more, with the
\* loop back at its prompt.
C19_DriverExit ==
    [][/\ LineRead =>
             IF Trimmed(repl'.line) = exit
             THEN /\ repl'.pc = "exited"
                  /\ repl'.stdout = Append(repl.stdout, PROMPT)
                  /\ UNCHANGED <<input, position, read_position, ch, panicked, out>>
             ELSE /\ repl'.pc = "drain"
                  /\ out' = <<>>
       /\ repl.pc = "drain" =>
             /\ repl'.pc \in {"drain", "read"}
             /\ Len(out') <= Len(input) + 1
             /\ Len(out') = Len(input) + 1 => repl'.pc = "read"]_vars

RECURSIVE Yield(_, _)
\* the tokens a scanner l yields until its first None, n calls at most
Yield(l, n) ==
    IF n = 0 \/ l.panicked THEN <<>>
    ELSE LET r == next(l)
         IN  IF r.lexer.panicked \/ r.item = None THEN <<>>
             ELSE <<r.item>> \o Yield(r.lexer, n - 1)

\* the writes of the iteration of the line read last
Since == SubSeq(repl.stdout, repl.mark + 1, Len(repl.stdout))

Fresh == Yield(new(Trimmed(repl.line)), Len(repl.line) + 1)

Rendered(ts) == [i \in 1..Len(ts) |-> Debug(ts[i]) \o <<" ">>]

\* C20: the drain of a line never aborts; while it lasts the writes since
\* the prompt are the renderings, in order, of the first tokens a new
\* scanner over the trimmed line yields, and when it is over they are the
\* renderings of all of them, then the newline and the line, whatever was
\* read before.
C20_FreshScanner ==
    /\ ~(repl.pc = "aborted" /\ panicked)
    /\ repl.pc = "drain" =>
          /\ input = Trimmed(repl.line)
          /\ Len(Since) <= Len(Fresh) + 1
          /\ Since = <<PROMPT>> \o SubSeq(Rendered(Fresh), 1, Len(Since) - 1)
    /\ (repl.pc = "read" /\ repl.reads > 0) =>
          Since = <<PROMPT>> \o Rendered(Fresh)
                     \o <<<<"\n">>, Trimmed(repl.line) \o <<"\n">>>>

====
